---- MODULE Spec2Model ----
(***************************************************************************)
(* The API gateway of the video-processing system: the remote-verification *)
(* AuthGuard, the AuthController and VideoController proxy handlers, the   *)
(* NodejsMetricsInterceptor and the NodejsPrometheusService registry.      *)
(*                                                                         *)
(* JavaScript values are tagged records ([t |-> "undefined"], strings,     *)
(* numbers, arrays, objects) so that the dynamic checks of the code        *)
(* (!token, Array.isArray, req.user.user ? ...) are computed, not assumed. *)
(* A string is a sequence of atoms; the atom " " is the space character    *)
(* and every other atom is a run of non-space characters.                  *)
(***************************************************************************)
EXTENDS Integers, Sequences, FiniteSets, TLC

\* ---- bounds of the model
MaxRequests == 2
MaxHdrLen == 3
MaxFiles == 4

\* ---- JavaScript values
Undefined == [t |-> "undefined"]
Null == [t |-> "null"]
Str(s) == [t |-> "string", s |-> s]
Num(n) == [t |-> "number", n |-> n]
Arr(items) == [t |-> "array", items |-> items]

SeqsUpTo(S, n) == UNION {[1..k -> S] : k \in 0..n}

\* !v for the values that occur: undefined, null and the empty string are falsy
Falsy(v) == v = Undefined \/ v = Null \/ v = Str(<<>>)

\* String.prototype.split(' ')
RECURSIVE split(_)
split(s) ==
  IF s = <<>> THEN << <<>> >>
  ELSE LET rest == split(Tail(s))
       IN IF Head(s) = " "
          THEN << <<>> >> \o rest
          ELSE << <<Head(s)>> \o rest[1] >> \o Tail(rest)

\* field access: a missing property reads as undefined
Get(o, f) == IF f \in DOMAIN o THEN o[f] ELSE Undefined

\* String(v)
JsString(v) ==
  IF v.t = "string" THEN v
  ELSE IF v.t = "number" THEN Str(<<ToString(v.n)>>)
  ELSE Str(<<v.t>>)

\* a || b
Or(a, b) == IF Falsy(a) THEN b ELSE a

\* mutant: an increment of a label set that is already present is lost
Inc_lossy(m, labels) == m @@ (labels :> 1)

\* a counter / histogram of prom-client: label set -> number of inc / observe calls
Inc(m, labels) ==
  IF labels \in DOMAIN m THEN [m EXCEPT ![labels] = @ + 1] ELSE m @@ (labels :> 1)

\* ---- requests
Reqs == {1}

Routes == {"register", "login", "refresh", "profile", "verify", "upload",
           "upload-single", "list", "download", "status", "queue-stats"}

Method(rt) == IF rt \in {"register", "login", "refresh", "upload", "upload-single"}
              THEN "POST" ELSE "GET"

\* the route template the framework matched (request.route.path)
RoutePath(rt) ==
  CASE rt = "register" -> "/auth/register"
    [] rt = "login" -> "/auth/login"
    [] rt = "refresh" -> "/auth/refresh"
    [] rt = "profile" -> "/auth/profile"
    [] rt = "verify" -> "/auth/verify"
    [] rt = "upload" -> "/videos/upload"
    [] rt = "upload-single" -> "/videos/upload-single"
    [] rt = "list" -> "/videos"
    [] rt = "download" -> "/videos/download/:filename"
    [] rt = "status" -> "/videos/status"
    [] rt = "queue-stats" -> "/videos/queue/stats"

\* mutant: @UseGuards(AuthGuard) left off the VideoController
Protected_authOnly(rt) == rt \in {"profile", "verify"}

\* @UseGuards(AuthGuard): the whole VideoController, and profile / verify
Protected(rt) == rt \notin {"register", "login", "refresh"}

HdrAtoms == {" ", "Bearer", "Basic", "t1", "t2"}
Headers == {Undefined} \cup {Str(s) : s \in SeqsUpTo(HdrAtoms, MaxHdrLen)}

\* the headers the full pipeline is explored with
SampleHeaders == {Undefined, Str(<<"Basic", " ", "t1">>),
                  Str(<<"Bearer", " ", "t1">>), Str(<<"Bearer", " ", "t2">>)}

\* the :filename parameter of a download
Filenames == {"frames.zip", "my clip.zip"}

Subs == {"u1", "u2"}
Identities == {[t |-> "object", sub |-> Str(<<s>>)] : s \in Subs}
         \cup {[t |-> "object", user |-> [t |-> "object", sub |-> Str(<<s>>)]] : s \in Subs}

\* uploaded files (Express.Multer.File): original name and bytes
FileVals == {[t |-> "object", originalname |-> Str(<<"a.mp4">>), buffer |-> <<1, 2>>],
             [t |-> "object", originalname |-> Str(<<"b.mp4">>), buffer |-> <<3>>]}
FileCycle(i) == IF i % 2 = 1
                THEN [t |-> "object", originalname |-> Str(<<"a.mp4">>), buffer |-> <<1, 2>>]
                ELSE [t |-> "object", originalname |-> Str(<<"b.mp4">>), buffer |-> <<3>>]

\* what the client sends to an upload route: a body that is not multipart, or
\* a multipart body with n file parts
UploadBodies == {Undefined} \cup {Arr([i \in 1..n |-> FileCycle(i)]) : n \in 0..MaxFiles}

\* ---- the backends: what an outbound call can end in
BackendFailures == {[kind |-> "network"], [kind |-> "timeout"],
                    [kind |-> "http", status |-> 401, data |-> Str(<<"bad credentials">>)],
                    [kind |-> "http", status |-> 500, data |-> Str(<<"boom">>)]}
BackendBodies == {Str(<<"body1">>)}
BackendOkStatuses == {200, 202}

\* ---- exceptions
UnauthorizedException(msg) ==
  [name |-> "UnauthorizedException", http |-> TRUE, status |-> Num(401), message |-> msg]
BadRequestException(msg) ==
  [name |-> "BadRequestException", http |-> TRUE, status |-> Num(400), message |-> msg]
JsError(msg) == [name |-> "Error", http |-> FALSE, status |-> Undefined, message |-> msg]
TypeError(msg) == [name |-> "TypeError", http |-> FALSE, status |-> Undefined, message |-> msg]
\* the rejection of firstValueFrom(httpService...): axios' error for the failed
\* call; whether it carries a top-level `status` depends on the axios version
AxiosError(f, st) ==
  [name |-> "AxiosError", http |-> FALSE, status |-> st, message |-> f.kind, response |-> f]
AxiosStatus(f) == IF f.kind = "http" THEN {Num(f.status), Undefined} ELSE {Undefined}

\* what the framework's exception layer sends for an exception that leaves a
\* guard, an interceptor or a handler: an HttpException's own status and
\* payload, anything else as 500 Internal server error
ExceptionFilter(e) ==
  IF e.http
  THEN [statusCode |-> e.status.n,
        body |-> [statusCode |-> e.status.n, message |-> e.message]]
  ELSE [statusCode |-> 500,
        body |-> [statusCode |-> 500, message |-> "Internal server error"]]

\* mutant: the token is taken whatever the scheme is
extractTokenFromHeader_anyScheme(request) ==
  LET authorization == request.headers.authorization
      parts == IF authorization = Undefined THEN <<>> ELSE split(authorization.s)
  IN IF Len(parts) >= 2 THEN Str(parts[2]) ELSE Undefined

\* ---- the AuthGuard
\* private extractTokenFromHeader(request)
extractTokenFromHeader(request) ==
  LET authorization == request.headers.authorization
      parts == IF authorization = Undefined THEN <<>> ELSE split(authorization.s)
      type == IF Len(parts) >= 1 THEN Str(parts[1]) ELSE Undefined
      token == IF Len(parts) >= 2 THEN Str(parts[2]) ELSE Undefined
  IN IF type = Str(<<"Bearer">>) THEN token ELSE Undefined

\* the outbound GET <AUTH_SERVICE_URL>/auth/verify of canActivate
VerifyCall(token) ==
  [svc |-> "auth", method |-> "GET", path |-> <<"/auth/verify">>,
   headers |-> [Authorization |-> Str(<<"Bearer", " ">> \o token.s)]]

\* mutant: the verified identity is not stored on the request
AttachUser_skip(req, data) == req

\* map(): (request as any).user = response.data
AttachUser(req, data) == [req EXCEPT !.user = data]

\* mutant: the backend's error is rethrown as it is
GuardCatchError_rethrow(f) == AxiosError(f, Undefined)

\* catchError(() => { throw new UnauthorizedException('Invalid token') })
GuardCatchError(f) == UnauthorizedException("Invalid token")

\* ---- the metrics registry (NodejsPrometheusService)
EmptyRegistry ==
  [httpRequestsTotal |-> <<>>, httpRequestDuration |-> <<>>, httpRequestSummary |-> <<>>,
   apiRequestsInProgress |-> 0, errorRate |-> <<>>,
   authOperations |-> <<>>, businessMetrics |-> <<>>]

incrementHttpRequests(reg, method, route, statusCode) ==
  [reg EXCEPT !.httpRequestsTotal =
     Inc(@, [method |-> method, route |-> Or(route, Str(<<"unknown">>)),
             status_code |-> ToString(statusCode)])]

\* mutant: the summary is not observed
recordHttpDuration_noSummary(reg, method, route, statusCode) ==
  [reg EXCEPT !.httpRequestDuration =
                 Inc(@, [method |-> method, route |-> Or(route, Str(<<"unknown">>)),
                         status_code |-> ToString(statusCode)])]

recordHttpDuration(reg, method, route, statusCode) ==
  [reg EXCEPT !.httpRequestDuration =
                 Inc(@, [method |-> method, route |-> Or(route, Str(<<"unknown">>)),
                         status_code |-> ToString(statusCode)]),
              !.httpRequestSummary =
                 Inc(@, [method |-> method, route |-> Or(route, Str(<<"unknown">>))])]

incrementActiveRequests(reg) == [reg EXCEPT !.apiRequestsInProgress = @ + 1]

\* mutant: the gauge is never released
decrementActiveRequests_skip(reg) == reg

decrementActiveRequests(reg) == [reg EXCEPT !.apiRequestsInProgress = @ - 1]

recordError(reg, type, method, route) ==
  [reg EXCEPT !.errorRate =
     Inc(@, [type |-> type, method |-> method, route |-> Or(route, Str(<<"unknown">>))])]

recordAuthOperation(reg, operation, status) ==
  [reg EXCEPT !.authOperations = Inc(@, [operation |-> operation, status |-> status]),
              !.businessMetrics = Inc(@, [operation |-> operation, service |-> "auth"])]

recordBusinessOperation(reg, operation, service) ==
  [reg EXCEPT !.businessMetrics = Inc(@, [operation |-> operation, service |-> service])]

\* ---- the NodejsMetricsInterceptor
\* mutant: the full URL is preferred to the route template
RouteLabel_urlFirst(request) ==
  JsString(Or(Or(request.url, Get(request.route, "path")), request.path))

\* String(request.route?.path || request.path || request.url)
RouteLabel(request) ==
  JsString(Or(Or(Get(request.route, "path"), request.path), request.url))

\* Number(v): a number is itself, null and the empty string are 0, undefined
\* is NaN; no other string that occurs spells a number
NaN == [t |-> "NaN"]
JsNumber(v) ==
  IF v.t = "number" THEN v
  ELSE IF v = Null \/ v = Str(<<>>) THEN Num(0)
  ELSE NaN

\* mutant: every error is recorded as 500
ErrorStatusCode_always500(error) == 500

\* Number(error.status) || 500
ErrorStatusCode(error) ==
  LET status == JsNumber(error.status)
  IN IF status.t = "number" /\ status.n # 0 THEN status.n ELSE 500

\* mutant: a successful completion is recorded in the error counter as well
TapNext_flagged(reg, request, statusCode) ==
  decrementActiveRequests(
    recordError(
      recordHttpDuration(
        incrementHttpRequests(reg, request.method, RouteLabel(request), statusCode),
        request.method, RouteLabel(request), statusCode),
      "http_error", request.method, RouteLabel(request)))

\* tap({next}) followed by finalize
TapNext(reg, request, statusCode) ==
  decrementActiveRequests(
    recordHttpDuration(
      incrementHttpRequests(reg, request.method, RouteLabel(request), statusCode),
      request.method, RouteLabel(request), statusCode))

\* mutant: an error is not recorded, only the gauge is released
TapError_silent(reg, request, error) == decrementActiveRequests(reg)

\* tap({error}) followed by finalize
TapError(reg, request, error) ==
  decrementActiveRequests(
    recordError(
      recordHttpDuration(
        incrementHttpRequests(reg, request.method, RouteLabel(request),
                              ErrorStatusCode(error)),
        request.method, RouteLabel(request), ErrorStatusCode(error)),
      "http_error", request.method, RouteLabel(request)))

\* ---- the proxy handlers
\* what a handler does when it is invoked: returns a value, throws, or issues
\* one outbound call and awaits it
Return(v) == [kind |-> "return", value |-> v]
Throw(e) == [kind |-> "throw", error |-> e]
Call(c) == [kind |-> "call", call |-> c]

\* mutant: only the flat shape is read
XUserId_flatOnly(user) == JsString(Get(user, "sub"))

\* String(req.user.user ? req.user.user.sub : req.user.sub)
XUserId(user) ==
  JsString(IF ~Falsy(Get(user, "user")) THEN Get(user.user, "sub") ELSE Get(user, "sub"))

\* new Uint8Array(file.buffer)
Uint8Array(buffer) == [i \in 1..Len(buffer) |-> buffer[i] % 256]

\* mutant: the part is appended without the file's name
Part_noName(field, file) ==
  [field |-> field, filename |-> Str(<<"blob">>), bytes |-> Uint8Array(file.buffer)]

\* formData.append(field, new Blob([new Uint8Array(file.buffer)]), file.originalname)
Part(field, file) ==
  [field |-> field, filename |-> file.originalname, bytes |-> Uint8Array(file.buffer)]

\* fileArray.forEach((file) => { if (file) formData.append('videos', ...) })
RECURSIVE AppendFiles(_, _)
AppendFiles(formData, fileArray) ==
  IF fileArray = <<>> THEN formData
  ELSE AppendFiles(IF Falsy(Head(fileArray)) THEN formData
                   ELSE Append(formData, Part("videos", Head(fileArray))),
                   Tail(fileArray))

\* mutant: the cap is off by one
TooManyFiles_offByOne(fileArray) == Len(fileArray) > 4

\* if (fileArray.length > 3)
TooManyFiles(fileArray) == Len(fileArray) > 3

\* VideoController.uploadVideo
uploadVideo(files, req) ==
  LET fileArray == IF files.t = "array" THEN files.items ELSE <<files>>
  IN IF Len(fileArray) = 0 THEN Throw(JsError("No files provided"))
     ELSE IF TooManyFiles(fileArray) THEN Throw(JsError("Maximum 3 files allowed"))
     ELSE IF Falsy(req.user) THEN Throw(TypeError("req.user is undefined"))
     ELSE Call([svc |-> "video", method |-> "POST", path |-> <<"/api/v1/videos/upload">>,
                body |-> AppendFiles(<<>>, fileArray),
                headers |-> [ContentType |-> "multipart/form-data",
                             XUserId |-> XUserId(req.user)],
                responseType |-> "json"])

\* mutant: without a file an empty form is posted
uploadVideoSingle_emptyOk(file, req) ==
  IF Falsy(req.user) THEN Throw(TypeError("req.user is undefined"))
  ELSE Call([svc |-> "video", method |-> "POST", path |-> <<"/api/v1/videos/upload-single">>,
             body |-> IF Falsy(file) THEN <<>> ELSE <<Part("video", file)>>,
             headers |-> [ContentType |-> "multipart/form-data",
                          XUserId |-> XUserId(req.user)],
             responseType |-> "json"])

\* VideoController.uploadVideoSingle
uploadVideoSingle(file, req) ==
  IF Falsy(file) THEN Throw(TypeError("file is undefined"))
  ELSE IF Falsy(req.user) THEN Throw(TypeError("req.user is undefined"))
  ELSE Call([svc |-> "video", method |-> "POST", path |-> <<"/api/v1/videos/upload-single">>,
             body |-> <<Part("video", file)>>,
             headers |-> [ContentType |-> "multipart/form-data",
                          XUserId |-> XUserId(req.user)],
             responseType |-> "json"])

\* mutant: an X-User-Id header of the client is passed on
VideoGet_trustsClient(path, responseType, req) ==
  IF Falsy(req.user) THEN Throw(TypeError("req.user is undefined"))
  ELSE Call([svc |-> "video", method |-> "GET", path |-> path, body |-> <<>>,
             headers |-> [XUserId |-> IF Get(req.headers, "xUserId") # Undefined
                                      THEN req.headers.xUserId ELSE XUserId(req.user)],
             responseType |-> responseType])

\* listVideos, getProcessingStatus, getQueueStats, downloadVideo: one GET
VideoGet(path, responseType, req) ==
  IF Falsy(req.user) THEN Throw(TypeError("req.user is undefined"))
  ELSE Call([svc |-> "video", method |-> "GET", path |-> path, body |-> <<>>,
             headers |-> [XUserId |-> XUserId(req.user)],
             responseType |-> responseType])

\* AuthController.register / login / refresh: one POST of the request body
AuthPost(path, req) ==
  Call([svc |-> "auth", method |-> "POST", path |-> path, body |-> req.body,
        headers |-> <<>>, responseType |-> "json"])

\* mutant: the profile is fetched from the auth service again
getProfile_refetch(req) ==
  Call([svc |-> "auth", method |-> "GET", path |-> <<"/auth/profile">>, body |-> "",
        headers |-> <<>>, responseType |-> "json"])

\* AuthController.getProfile: return req.user
getProfile(req) == Return(req.user)

\* AuthController.verify: return { valid: true, user: req.user }
verify(req) == Return([valid |-> TRUE, user |-> req.user])

\* mutant: the download is always offered under one fixed name
DownloadHeaders_fixedName(filename) ==
  [ContentType |-> "application/zip",
   ContentDisposition |-> <<"attachment; filename=", "frames.zip">>]

\* res.set({'Content-Type': 'application/zip',
\*          'Content-Disposition': `attachment; filename=${filename}`})
DownloadHeaders(filename) ==
  [ContentType |-> "application/zip",
   ContentDisposition |-> <<"attachment; filename=", filename>>]

\* the handler the router dispatches the request to
HandlerEffect(req) ==
  CASE req.name = "register" -> AuthPost(<<"/auth/register">>, req)
    [] req.name = "login" -> AuthPost(<<"/auth/login">>, req)
    [] req.name = "refresh" -> AuthPost(<<"/auth/refresh">>, req)
    [] req.name = "profile" -> getProfile(req)
    [] req.name = "verify" -> verify(req)
    [] req.name = "upload" -> uploadVideo(req.files, req)
    [] req.name = "upload-single" -> uploadVideoSingle(req.file, req)
    [] req.name = "list" -> VideoGet(<<"/api/v1/videos">>, "json", req)
    [] req.name = "download" ->
         VideoGet(<<"/api/v1/videos/download/", req.params.filename>>, "stream", req)
    [] req.name = "status" -> VideoGet(<<"/api/v1/videos/status">>, "json", req)
    [] req.name = "queue-stats" -> VideoGet(<<"/api/v1/videos/queue/stats">>, "json", req)

\* ---- state
VARIABLES
  pc,        \* where each request is in the pipeline
  request,   \* the Express request object of each request
  response,  \* the Express response object: what the client sees
  guard,     \* what canActivate ended in: "none", "allowed", "rejected"
  outbound,  \* the outbound calls issued for each request, in order
  replies,   \* what the backends answered, in order
  thrown,    \* the exception that ended the request, if any
  returned,  \* the value the handler returned, if any
  handled,   \* whether the route handler was invoked
  registry,  \* the process-wide prom-client registry
  served,    \* number of requests accepted so far
  verified   \* Authorization values the auth service has verified so far

vars == <<pc, request, response, guard, outbound, replies, thrown, returned,
          handled, registry, served, verified>>

NoRequest == [name |-> "", method |-> "", route |-> Undefined, path |-> Undefined,
              url |-> Undefined, headers |-> [authorization |-> Undefined],
              params |-> [filename |-> ""], body |-> "", user |-> Undefined,
              files |-> Undefined, file |-> Undefined]
NoResponse == [statusCode |-> 200, headers |-> <<>>, body |-> Undefined, sent |-> FALSE]

Init ==
  /\ pc = [r \in Reqs |-> "idle"]
  /\ request = [r \in Reqs |-> NoRequest]
  /\ response = [r \in Reqs |-> NoResponse]
  /\ guard = [r \in Reqs |-> "none"]
  /\ outbound = [r \in Reqs |-> <<>>]
  /\ replies = [r \in Reqs |-> <<>>]
  /\ thrown = [r \in Reqs |-> Undefined]
  /\ returned = [r \in Reqs |-> Undefined]
  /\ handled = [r \in Reqs |-> FALSE]
  /\ registry = EmptyRegistry
  /\ served = 0
  /\ verified = {}

\* ---- actions
\* a request of the client reaches the router; the client may send an
\* X-User-Id header of its own
ArriveFrom(r, rt, h, xUserId) ==
  /\ pc[r] = "idle"
  /\ served < MaxRequests
  /\ served' = served + 1
  /\ \E filename \in (IF rt = "download" THEN Filenames ELSE {""}) :
       request' = [request EXCEPT ![r] =
         [NoRequest EXCEPT !.name = rt, !.method = Method(rt),
                           !.route = [t |-> "object", path |-> Str(<<RoutePath(rt)>>)],
                           !.path = Str(<<RoutePath(rt)>>), !.url = Str(<<RoutePath(rt)>>),
                           !.headers = [authorization |-> h, xUserId |-> xUserId],
                           !.params = [filename |-> filename],
                           !.body = IF Method(rt) = "POST" THEN "payload" ELSE ""]]
  /\ pc' = [pc EXCEPT ![r] = IF Protected(rt) THEN "guard" ELSE "intercept"]
  /\ UNCHANGED <<response, guard, outbound, replies, thrown, returned, handled,
                 registry, verified>>

\* a request of a client that sends no X-User-Id header
Arrive(r, rt, h) == ArriveFrom(r, rt, h, Undefined)

\* an exception leaves the guard: the handler is never reached
GuardThrows(r, e) ==
  /\ thrown' = [thrown EXCEPT ![r] = e]
  /\ guard' = [guard EXCEPT ![r] = "rejected"]
  /\ response' = [response EXCEPT ![r] =
       [@ EXCEPT !.statusCode = ExceptionFilter(e).statusCode,
                 !.body = ExceptionFilter(e).body, !.sent = TRUE]]
  /\ pc' = [pc EXCEPT ![r] = "done"]

\* mutant: a token the auth service has verified before is let through
\* without a new verify call
canActivate_cached(r) ==
  /\ pc[r] = "guard"
  /\ LET token == extractTokenFromHeader(request[r])
     IN IF Falsy(token)
        THEN /\ GuardThrows(r, UnauthorizedException("Token not found"))
             /\ UNCHANGED <<request, outbound, replies, returned, handled, registry,
                            served, verified>>
        ELSE IF VerifyCall(token).headers.Authorization \in verified
        THEN /\ guard' = [guard EXCEPT ![r] = "allowed"]
             /\ request' = [request EXCEPT ![r] =
                              AttachUser(@, [t |-> "object", sub |-> Str(<<"u1">>)])]
             /\ pc' = [pc EXCEPT ![r] = "intercept"]
             /\ UNCHANGED <<response, outbound, replies, thrown, returned, handled,
                            registry, served, verified>>
        ELSE /\ outbound' = [outbound EXCEPT ![r] = Append(@, VerifyCall(token))]
             /\ pc' = [pc EXCEPT ![r] = "verifying"]
             /\ UNCHANGED <<request, response, guard, replies, thrown, returned,
                            handled, registry, served, verified>>

\* AuthGuard.canActivate up to the outbound verify call
canActivate(r) ==
  /\ pc[r] = "guard"
  /\ LET token == extractTokenFromHeader(request[r])
     IN IF Falsy(token)
        THEN /\ GuardThrows(r, UnauthorizedException("Token not found"))
             /\ UNCHANGED <<request, outbound, replies, returned, handled, registry,
                            served, verified>>
        ELSE /\ outbound' = [outbound EXCEPT ![r] = Append(@, VerifyCall(token))]
             /\ pc' = [pc EXCEPT ![r] = "verifying"]
             /\ UNCHANGED <<request, response, guard, replies, thrown, returned,
                            handled, registry, served, verified>>

\* mutant: the verified identity is kept in one place shared by all requests
VerifyOk_shared(r, data) ==
  /\ pc[r] = "verifying"
  /\ replies' = [replies EXCEPT ![r] = Append(@, [kind |-> "ok", status |-> 200, data |-> data])]
  /\ request' = [x \in DOMAIN request |->
                   IF x = r \/ request[x].user # Undefined
                   THEN AttachUser(request[x], data) ELSE request[x]]
  /\ guard' = [guard EXCEPT ![r] = "allowed"]
  /\ verified' = verified \cup {outbound[r][Len(outbound[r])].headers.Authorization}
  /\ pc' = [pc EXCEPT ![r] = "intercept"]
  /\ UNCHANGED <<response, outbound, thrown, returned, handled, registry, served>>

\* the auth service answers 2xx: map() stores the body as request.user
VerifyOk(r, data) ==
  /\ pc[r] = "verifying"
  /\ replies' = [replies EXCEPT ![r] = Append(@, [kind |-> "ok", status |-> 200, data |-> data])]
  /\ request' = [request EXCEPT ![r] = AttachUser(@, data)]
  /\ guard' = [guard EXCEPT ![r] = "allowed"]
  /\ verified' = verified \cup {outbound[r][Len(outbound[r])].headers.Authorization}
  /\ pc' = [pc EXCEPT ![r] = "intercept"]
  /\ UNCHANGED <<response, outbound, thrown, returned, handled, registry, served>>

\* the verify call fails: catchError() replaces the error
VerifyFail(r, f) ==
  /\ pc[r] = "verifying"
  /\ replies' = [replies EXCEPT ![r] = Append(@, f)]
  /\ GuardThrows(r, GuardCatchError(f))
  /\ UNCHANGED <<request, outbound, returned, handled, registry, served, verified>>

\* FilesInterceptor('videos', 3): the number of files multer accepts
MaxCount == 3

\* an exception leaves the interceptor chain or the handler: tap({error}),
\* finalize, and the framework's exception layer answers the client
HandlerThrows(r, e) ==
  /\ thrown' = [thrown EXCEPT ![r] = e]
  /\ registry' = TapError(registry, request[r], e)
  /\ response' = [response EXCEPT ![r] =
       [@ EXCEPT !.statusCode = ExceptionFilter(e).statusCode,
                 !.body = ExceptionFilter(e).body, !.sent = TRUE]]
  /\ pc' = [pc EXCEPT ![r] = "done"]

\* the handler returns v: tap({next}), finalize, and the framework sends v
\* with the status code set on the response
HandlerReturns(r, v) ==
  /\ returned' = [returned EXCEPT ![r] = v]
  /\ registry' = TapNext(registry, request[r], response[r].statusCode)
  /\ response' = [response EXCEPT ![r] = [@ EXCEPT !.body = v, !.sent = TRUE]]
  /\ pc' = [pc EXCEPT ![r] = "done"]

\* the guard has let the request through (or the route has none): the router
\* sets the route's status code, and NodejsMetricsInterceptor.intercept runs up
\* to next.handle()
intercept(r) ==
  /\ pc[r] = "intercept"
  /\ response' = [response EXCEPT ![r].statusCode =
                    IF request[r].method = "POST" THEN 201 ELSE 200]
  /\ registry' = incrementActiveRequests(registry)
  /\ pc' = [pc EXCEPT ![r] =
              IF request[r].name \in {"upload", "upload-single"} THEN "multer" ELSE "handler"]
  /\ UNCHANGED <<request, guard, outbound, replies, thrown, returned, handled,
                 served, verified>>

\* FilesInterceptor('videos', 3) / FileInterceptor('video'): multer reads the
\* body; more file parts than the field allows are refused with 400
Multer(r, body) ==
  /\ pc[r] = "multer"
  /\ LET limit == IF request[r].name = "upload" THEN MaxCount ELSE 1
     IN IF body # Undefined /\ Len(body.items) > limit
        THEN /\ HandlerThrows(r, BadRequestException("Unexpected field"))
             /\ UNCHANGED <<request, guard, outbound, replies, returned, handled,
                            served, verified>>
        ELSE /\ request' = [request EXCEPT ![r] =
                  IF request[r].name = "upload"
                  THEN [@ EXCEPT !.files = body]
                  ELSE [@ EXCEPT !.file = IF body = Undefined \/ body.items = <<>>
                                          THEN Undefined ELSE body.items[1]]]
             /\ pc' = [pc EXCEPT ![r] = "handler"]
             /\ UNCHANGED <<response, guard, outbound, replies, thrown, returned,
                            handled, registry, served, verified>>

\* the route handler is invoked and runs up to its first await
Handler(r) ==
  /\ pc[r] = "handler"
  /\ handled' = [handled EXCEPT ![r] = TRUE]
  /\ LET eff == HandlerEffect(request[r])
     IN CASE eff.kind = "return" ->
               /\ HandlerReturns(r, eff.value)
               /\ UNCHANGED <<request, guard, outbound, replies, thrown, served, verified>>
          [] eff.kind = "throw" ->
               /\ HandlerThrows(r, eff.error)
               /\ UNCHANGED <<request, guard, outbound, replies, returned, served, verified>>
          [] eff.kind = "call" ->
               /\ outbound' = [outbound EXCEPT ![r] = Append(@, eff.call)]
               /\ pc' = [pc EXCEPT ![r] = "calling"]
               /\ UNCHANGED <<request, response, guard, replies, thrown, returned,
                              registry, served, verified>>

\* the backend answers the handler's call with 2xx: return response.data; the
\* download handler sets the headers, starts the pipe and returns nothing
BackendOk(r, status, data) ==
  /\ pc[r] = "calling"
  /\ replies' = [replies EXCEPT ![r] = Append(@, [kind |-> "ok", status |-> status, data |-> data])]
  /\ IF request[r].name = "download"
     THEN /\ returned' = [returned EXCEPT ![r] = Undefined]
          /\ registry' = TapNext(registry, request[r], response[r].statusCode)
          /\ response' = [response EXCEPT ![r].headers =
                            DownloadHeaders(request[r].params.filename)]
          /\ pc' = [pc EXCEPT ![r] = "streaming"]
     ELSE HandlerReturns(r, data)
  /\ UNCHANGED <<request, guard, outbound, thrown, handled, served, verified>>

\* mutant: a failed call is issued once more before the handler gives up
BackendFail_retry(r, f, st) ==
  /\ pc[r] = "calling"
  /\ replies' = [replies EXCEPT ![r] = Append(@, f)]
  /\ IF Len(outbound[r]) < 3
     THEN /\ outbound' = [outbound EXCEPT ![r] = Append(@, @[Len(@)])]
          /\ UNCHANGED <<pc, response, thrown, registry>>
     ELSE /\ HandlerThrows(r, AxiosError(f, st))
          /\ UNCHANGED outbound
  /\ UNCHANGED <<request, guard, returned, handled, served, verified>>

\* the handler's call fails: firstValueFrom rejects and the handler with it
BackendFail(r, f, st) ==
  /\ pc[r] = "calling"
  /\ replies' = [replies EXCEPT ![r] = Append(@, f)]
  /\ HandlerThrows(r, AxiosError(f, st))
  /\ UNCHANGED <<request, guard, outbound, returned, handled, served, verified>>

\* the backend stream ends: pipe() ends the client response
StreamEnd(r) ==
  /\ pc[r] = "streaming"
  /\ response' = [response EXCEPT ![r] =
       [@ EXCEPT !.body = replies[r][Len(replies[r])].data, !.sent = TRUE]]
  /\ pc' = [pc EXCEPT ![r] = "done"]
  /\ UNCHANGED <<request, guard, outbound, replies, thrown, returned, handled,
                 registry, served, verified>>

\* the backend stream fails: pipe() neither ends nor destroys the client response
StreamError(r) ==
  /\ pc[r] = "streaming"
  /\ pc' = [pc EXCEPT ![r] = "open"]
  /\ UNCHANGED <<request, response, guard, outbound, replies, thrown, returned,
                 handled, registry, served, verified>>

\* the exchange is over (or the client gives up on an open response): the
\* request and response objects are dropped
Recycle(r) ==
  /\ pc[r] \in {"done", "open"}
  /\ pc' = [pc EXCEPT ![r] = "idle"]
  /\ request' = [request EXCEPT ![r] = NoRequest]
  /\ response' = [response EXCEPT ![r] = NoResponse]
  /\ guard' = [guard EXCEPT ![r] = "none"]
  /\ outbound' = [outbound EXCEPT ![r] = <<>>]
  /\ replies' = [replies EXCEPT ![r] = <<>>]
  /\ thrown' = [thrown EXCEPT ![r] = Undefined]
  /\ returned' = [returned EXCEPT ![r] = Undefined]
  /\ handled' = [handled EXCEPT ![r] = FALSE]
  /\ UNCHANGED <<registry, served, verified>>

Next ==
  \/ \E r \in Reqs, rt \in Routes, h \in SampleHeaders : Arrive(r, rt, h)
  \/ \E r \in Reqs : canActivate(r)
  \/ \E r \in Reqs, data \in Identities : VerifyOk(r, data)
  \/ \E r \in Reqs, f \in BackendFailures : VerifyFail(r, f)
  \/ \E r \in Reqs : intercept(r)
  \/ \E r \in Reqs, body \in UploadBodies : Multer(r, body)
  \/ \E r \in Reqs : Handler(r)
  \/ \E r \in Reqs, status \in BackendOkStatuses, data \in BackendBodies :
       BackendOk(r, status, data)
  \/ \E r \in Reqs, f \in BackendFailures : \E st \in AxiosStatus(f) : BackendFail(r, f, st)
  \/ \E r \in Reqs : StreamEnd(r)
  \/ \E r \in Reqs : StreamError(r)
  \/ \E r \in Reqs : Recycle(r)

Spec == Init /\ [][Next]_vars

\* ---- the guard alone, over every Authorization header up to MaxHdrLen atoms
NextGuard ==
  \/ \E rt \in Routes, h \in Headers : Arrive(1, rt, h)
  \/ canActivate(1)
  \/ \E data \in Identities : VerifyOk(1, data)
  \/ \E f \in BackendFailures : VerifyFail(1, f)

SpecGuard == Init /\ [][NextGuard]_vars

\* ---- uploadVideo alone, over every value its `files` parameter can take: an
\* upload request that the guard has let through and the interceptor has
\* counted, about to enter the handler
HandlerFiles ==
  {Undefined, Null} \cup FileVals
    \cup {Arr(a) : a \in SeqsUpTo(FileVals \cup {Null}, MaxFiles)}

InitUpload ==
  /\ pc = [r \in Reqs |-> "handler"]
  /\ \E files \in HandlerFiles, data \in Identities :
       request = [r \in Reqs |->
         [NoRequest EXCEPT !.name = "upload", !.method = "POST",
                           !.route = [t |-> "object", path |-> Str(<<RoutePath("upload")>>)],
                           !.path = Str(<<RoutePath("upload")>>),
                           !.url = Str(<<RoutePath("upload")>>),
                           !.headers = [authorization |-> Str(<<"Bearer", " ", "t1">>)],
                           !.body = "payload", !.user = data, !.files = files]]
  /\ response = [r \in Reqs |-> [NoResponse EXCEPT !.statusCode = 201]]
  /\ guard = [r \in Reqs |-> "allowed"]
  /\ outbound = [r \in Reqs |-> <<VerifyCall(Str(<<"t1">>))>>]
  /\ replies = [r \in Reqs |->
       <<[kind |-> "ok", status |-> 200, data |-> request[r].user]>>]
  /\ thrown = [r \in Reqs |-> Undefined]
  /\ returned = [r \in Reqs |-> Undefined]
  /\ handled = [r \in Reqs |-> FALSE]
  /\ registry = [EmptyRegistry EXCEPT !.apiRequestsInProgress = Cardinality(Reqs)]
  /\ served = Cardinality(Reqs)
  /\ verified = {Str(<<"Bearer", " ", "t1">>)}

NextUpload ==
  \/ \E r \in Reqs : Handler(r)
  \/ \E r \in Reqs, status \in BackendOkStatuses, data \in BackendBodies :
       BackendOk(r, status, data)
  \/ \E r \in Reqs, f \in BackendFailures : \E st \in AxiosStatus(f) : BackendFail(r, f, st)

SpecUpload == InitUpload /\ [][NextUpload]_vars

\* ---- helpers of the properties
\* the text of a header before its first space, and the text after it
RECURSIVE Scheme(_)
Scheme(s) == IF s = <<>> \/ Head(s) = " " THEN <<>> ELSE <<Head(s)>> \o Scheme(Tail(s))
AfterScheme(s) == SubSeq(s, Len(Scheme(s)) + 2, Len(s))

\* absent, empty, another scheme than Bearer, or Bearer with no token after it
NoBearerToken(h) ==
  \/ h = Undefined
  \/ h.s = <<>>
  \/ Scheme(h.s) # <<"Bearer">>
  \/ \A i \in DOMAIN AfterScheme(h.s) : AfterScheme(h.s)[i] = " "

\* Bearer, one space, and a token without spaces
WellFormedBearer(h) ==
  /\ h # Undefined
  /\ Scheme(h.s) = <<"Bearer">>
  /\ AfterScheme(h.s) # <<>>
  /\ \A i \in DOMAIN AfterScheme(h.s) : AfterScheme(h.s)[i] # " "

\* the routes the interface table marks as requiring authentication
NeedsAuth(rt) == rt \in {"profile", "verify", "upload", "upload-single", "list",
                         "download", "status", "queue-stats"}

VerifyCalls(r) == {i \in DOMAIN outbound[r] : outbound[r][i].path = <<"/auth/verify">>}
VideoCalls(r) == {i \in DOMAIN outbound[r] : outbound[r][i].svc = "video"}

\* C1: on a protected route a request whose Authorization header is absent,
\* empty, of another scheme than Bearer, or Bearer without a token is rejected
\* with UnauthorizedException('Token not found') (401), and no verify call is
\* ever issued for it.
C1_TokenMissing ==
  \A r \in Reqs :
    (pc[r] # "idle" /\ NeedsAuth(request[r].name)
       /\ NoBearerToken(request[r].headers.authorization)) =>
      /\ VerifyCalls(r) = {}
      /\ pc[r] # "guard" =>
           /\ pc[r] = "done"
           /\ thrown[r] = [name |-> "UnauthorizedException", http |-> TRUE,
                           status |-> Num(401), message |-> "Token not found"]
           /\ response[r].sent /\ response[r].statusCode = 401
           /\ response[r].body.message = "Token not found"

C1_Witness ==
  \E r \in Reqs :
    /\ pc[r] = "done"
    /\ request[r].headers.authorization = Str(<<"Basic", " ", "t1">>)
    /\ response[r].statusCode = 401
    /\ outbound[r] = <<>>

\* C2: whenever the guard's verify call fails, the request is rejected with
\* UnauthorizedException('Invalid token') (401) and the client sees the same
\* response whatever the backend failure was.
C2_InvalidToken ==
  \A r \in Reqs :
    (\E i \in VerifyCalls(r) : i \in DOMAIN replies[r] /\ replies[r][i].kind # "ok") =>
      /\ pc[r] = "done"
      /\ thrown[r] = [name |-> "UnauthorizedException", http |-> TRUE,
                      status |-> Num(401), message |-> "Invalid token"]
      /\ response[r].sent
      /\ response[r].statusCode = 401
      /\ response[r].body = [statusCode |-> 401, message |-> "Invalid token"]

C2_Witness ==
  \E r \in Reqs :
    /\ pc[r] = "done"
    /\ replies[r] = <<[kind |-> "http", status |-> 500, data |-> Str(<<"boom">>)]>>
    /\ response[r].statusCode = 401

\* C3: in every state request.user holds an identity exactly when the guard
\* has let the request through.
C3_UserIffAllowed ==
  \A r \in Reqs : (request[r].user # Undefined) <=> (guard[r] = "allowed")

C3_Witness ==
  \E r \in Reqs : guard[r] = "allowed" /\ request[r].user \in Identities /\ handled[r]

\* C4: on a protected route the handler runs, and calls the video service,
\* only after the verify call of that request has returned success; a request
\* the guard rejected never reaches its handler.
C4_GuardBeforeHandler ==
  \A r \in Reqs :
    NeedsAuth(request[r].name) =>
      /\ (handled[r] \/ VideoCalls(r) # {} \/ returned[r] # Undefined) =>
           /\ guard[r] = "allowed"
           /\ Len(replies[r]) >= 1 /\ replies[r][1].kind = "ok"
           /\ outbound[r][1].path = <<"/auth/verify">>
           /\ \A i \in VideoCalls(r) : i > 1
      /\ guard[r] = "rejected" =>
           ~handled[r] /\ VideoCalls(r) = {} /\ returned[r] = Undefined

C4_Witness ==
  \E r \in Reqs :
    /\ request[r].name = "list" /\ handled[r] /\ VideoCalls(r) = {2}
    /\ replies[r][1].kind = "ok"

\* C5: a protected request with a well-formed bearer token issues exactly one
\* verify call, also when the same token was verified for an earlier request.
C5_VerifyEveryRequest ==
  \A r \in Reqs :
    (NeedsAuth(request[r].name) /\ WellFormedBearer(request[r].headers.authorization)) =>
      /\ Cardinality(VerifyCalls(r)) <= 1
      /\ pc[r] # "guard" => Cardinality(VerifyCalls(r)) = 1

C5_Witness ==
  \E r \in Reqs :
    /\ pc[r] = "verifying"
    /\ outbound[r][1].headers.Authorization \in verified

\* the multipart parts that carry exactly the given files, in their order
PartsOf(items) ==
  [i \in DOMAIN items |->
     [field |-> "videos", filename |-> items[i].originalname, bytes |-> items[i].buffer]]

UploadCalls(r) == {i \in VideoCalls(r) : outbound[r][i].path = <<"/api/v1/videos/upload">>}

C7_UploadForwardsFiles ==
  \A r \in Reqs :
    (request[r].name = "upload" /\ handled[r] /\ request[r].files.t = "array"
       /\ Len(request[r].files.items) \in 1..3
       /\ \A i \in DOMAIN request[r].files.items : request[r].files.items[i] \in FileVals) =>
      /\ Cardinality(VideoCalls(r)) = 1
      /\ \A i \in VideoCalls(r) :
           /\ outbound[r][i].method = "POST"
           /\ outbound[r][i].path = <<"/api/v1/videos/upload">>
           /\ outbound[r][i].body = PartsOf(request[r].files.items)
      /\ \A i \in VideoCalls(r) :
           (i \in DOMAIN replies[r] /\ replies[r][i].kind = "ok") =>
             /\ returned[r] = replies[r][i].data
             /\ response[r].body = replies[r][i].data

C7_Witness ==
  \E r \in Reqs :
    /\ pc[r] = "done" /\ request[r].files.t = "array"
    /\ Len(request[r].files.items) = 3
    /\ request[r].files.items[1] # request[r].files.items[2]
    /\ returned[r] = Str(<<"body1">>)

\* C8: whenever uploadVideo issues its POST, the multipart body holds between
\* 1 and 3 file parts, whatever value the handler received as `files`.
C8_PartsInRange ==
  \A r \in Reqs : \A i \in UploadCalls(r) : Len(outbound[r][i].body) \in 1..3

\* C9: a file-count violation on multi-upload surfaces as a 4xx: the client's
\* status and the status code the instrumentation records are both 4xx.
C9_FileCountIs4xx ==
  \A r \in Reqs :
    (request[r].name = "upload" /\ pc[r] = "done" /\ thrown[r] # Undefined
       /\ thrown[r].message \in {"No files provided", "Maximum 3 files allowed"}) =>
      /\ response[r].statusCode \in 400..499
      /\ ErrorStatusCode(thrown[r]) \in 400..499

\* C10: when the backend call of register, login or refresh fails with a
\* response of status s and body b, the client gets status s and body b.
C10_AuthErrorPassThrough ==
  \A r \in Reqs :
    (request[r].name \in {"register", "login", "refresh"} /\ pc[r] = "done"
       /\ Len(replies[r]) = 1 /\ replies[r][1].kind = "http") =>
      /\ response[r].statusCode = replies[r][1].status
      /\ response[r].body = replies[r][1].data

\* the routes whose handler forwards the request to a backend
Proxied(rt) == rt \notin {"profile", "verify"}

\* the reply to the handler's own outbound call, once the exchange is over
HandlerReply(r) == replies[r][Len(replies[r])]

\* C11: on every proxied route, when the backend answers the handler's call
\* successfully with status s and body b, the client's response has status s
\* and body b.
C11_SuccessRelayed ==
  \A r \in Reqs :
    (pc[r] = "done" /\ Proxied(request[r].name) /\ handled[r]
       /\ Len(replies[r]) = Len(outbound[r]) /\ Len(replies[r]) >= 1
       /\ outbound[r][Len(outbound[r])].path # <<"/auth/verify">>
       /\ HandlerReply(r).kind = "ok") =>
      /\ response[r].statusCode = HandlerReply(r).status
      /\ request[r].name # "download" => response[r].body = HandlerReply(r).data

\* the subject id of a verified identity, whichever of the two shapes it has
SubjectId(identity) ==
  IF "user" \in DOMAIN identity THEN identity.user.sub ELSE identity.sub

\* C12: every outbound call of a video handler carries an X-User-Id header
\* equal to the subject id of the verified identity, read from user.sub for
\* the nested shape and from sub for the flat one; both shapes of the same
\* identity give the same header.
C12_XUserIdFromIdentity ==
  /\ \A r \in Reqs : \A i \in VideoCalls(r) :
       /\ request[r].user \in Identities
       /\ outbound[r][i].headers.XUserId = SubjectId(request[r].user)
  /\ \A s \in Subs :
       XUserId([t |-> "object", sub |-> Str(<<s>>)])
         = XUserId([t |-> "object", user |-> [t |-> "object", sub |-> Str(<<s>>)]])

C12_Witness ==
  \E r \in Reqs :
    /\ request[r].name = "status" /\ pc[r] = "done"
    /\ "user" \in DOMAIN request[r].user
    /\ \E i \in VideoCalls(r) : outbound[r][i].headers.XUserId = Str(<<"u2">>)

\* C13: GET /auth/profile and GET /auth/verify issue no outbound call of their
\* own: the guard's verify call is the only backend call of the request, and
\* the handler returns the identity the guard attached (profile), or
\* {valid: true, user: identity} (verify).
C13_ProfileReusesGuard ==
  \A r \in Reqs :
    request[r].name \in {"profile", "verify"} =>
      /\ Len(outbound[r]) <= 1
      /\ \A i \in DOMAIN outbound[r] : i \in VerifyCalls(r)
      /\ handled[r] =>
           /\ pc[r] = "done" /\ Len(outbound[r]) = 1
           /\ replies[r][1].kind = "ok"
           /\ request[r].user = replies[r][1].data
           /\ returned[r] = IF request[r].name = "profile" THEN request[r].user
                            ELSE [valid |-> TRUE, user |-> request[r].user]
           /\ response[r].sent /\ response[r].body = returned[r]
           /\ response[r].statusCode = 200

C13_Witness ==
  \E r \in Reqs :
    /\ request[r].name = "verify" /\ pc[r] = "done" /\ handled[r]
    /\ returned[r] = [valid |-> TRUE, user |-> [t |-> "object", sub |-> Str(<<"u1">>)]]

\* C14: nothing is retried: a request issues at most one verify call and at
\* most one proxied call, no backend endpoint is called twice for it, and a
\* failed outbound call is the request's last call and ends it with an error
\* response.
C14_NoRetry ==
  \A r \in Reqs :
    /\ Cardinality(VerifyCalls(r)) <= 1
    /\ Cardinality(DOMAIN outbound[r] \ VerifyCalls(r)) <= 1
    /\ \A i, j \in DOMAIN outbound[r] :
         (outbound[r][i].svc = outbound[r][j].svc
            /\ outbound[r][i].path = outbound[r][j].path) => i = j
    /\ \A i \in DOMAIN replies[r] :
         replies[r][i].kind # "ok" =>
           /\ i = Len(outbound[r])
           /\ pc[r] = "done"
           /\ thrown[r] # Undefined
           /\ response[r].sent /\ response[r].statusCode >= 400

C14_Witness ==
  \E r \in Reqs :
    /\ request[r].name = "list" /\ pc[r] = "done"
    /\ Len(outbound[r]) = 2 /\ Len(replies[r]) = 2
    /\ replies[r][2].kind = "timeout"
    /\ response[r].statusCode = 500

\* the reply to the download handler's GET, once it has arrived
DownloadReply(r) == replies[r][2]

\* C15: on a download whose backend call succeeded, the backend body was
\* requested as a stream, the client response carries Content-Type
\* application/zip and Content-Disposition attachment; filename=<the requested
\* filename>, the headers are in place while no byte has reached the client
\* yet, and what reaches the client is the backend body.
C15_DownloadHeadersThenPipe ==
  \A r \in Reqs :
    (request[r].name = "download" /\ Len(replies[r]) = 2
       /\ DownloadReply(r).kind = "ok") =>
      /\ outbound[r][2].responseType = "stream"
      /\ outbound[r][2].path = <<"/api/v1/videos/download/", request[r].params.filename>>
      /\ response[r].headers =
           [ContentType |-> "application/zip",
            ContentDisposition |-> <<"attachment; filename=", request[r].params.filename>>]
      /\ pc[r] \in {"streaming", "open"} => response[r].body = Undefined /\ ~response[r].sent
      /\ pc[r] = "done" => response[r].body = DownloadReply(r).data /\ response[r].sent

C15_Witness ==
  \E r \in Reqs :
    /\ request[r].name = "download" /\ pc[r] = "streaming"
    /\ request[r].params.filename = "my clip.zip"
    /\ response[r].headers.ContentDisposition = <<"attachment; filename=", "my clip.zip">>
    /\ response[r].body = Undefined

\* ---- downloads alone, with the scheduling the runtime gives: a pending step
\* of the gateway is eventually taken, an outbound call is eventually answered
\* (well or badly), a running stream eventually ends or fails, and a finished
\* exchange is eventually dropped. The client is patient: it never gives up
\* on a response that is still open.
DownloadHeader == Str(<<"Bearer", " ", "t1">>)

NextDownload ==
  \/ \E r \in Reqs : Arrive(r, "download", DownloadHeader)
  \/ \E r \in Reqs : canActivate(r)
  \/ \E r \in Reqs, data \in Identities : VerifyOk(r, data)
  \/ \E r \in Reqs, f \in BackendFailures : VerifyFail(r, f)
  \/ \E r \in Reqs : intercept(r)
  \/ \E r \in Reqs : Handler(r)
  \/ \E r \in Reqs, status \in BackendOkStatuses, data \in BackendBodies :
       BackendOk(r, status, data)
  \/ \E r \in Reqs, f \in BackendFailures : \E st \in AxiosStatus(f) : BackendFail(r, f, st)
  \/ \E r \in Reqs : StreamEnd(r)
  \/ \E r \in Reqs : StreamError(r)
  \/ \E r \in Reqs : pc[r] = "done" /\ Recycle(r)

GatewayStep ==
  \E r \in Reqs : canActivate(r) \/ intercept(r) \/ Handler(r)
BackendStep ==
  \E r \in Reqs :
    \/ \E data \in Identities : VerifyOk(r, data)
    \/ \E f \in BackendFailures : VerifyFail(r, f)
    \/ \E status \in BackendOkStatuses, data \in BackendBodies : BackendOk(r, status, data)
    \/ \E f \in BackendFailures : \E st \in AxiosStatus(f) : BackendFail(r, f, st)
StreamStep == \E r \in Reqs : StreamEnd(r) \/ StreamError(r)
DropFinished == \E r \in Reqs : pc[r] = "done" /\ Recycle(r)

SpecDownload ==
  /\ Init /\ [][NextDownload]_vars
  /\ WF_vars(GatewayStep) /\ WF_vars(BackendStep)
  /\ WF_vars(StreamStep) /\ WF_vars(DropFinished)

\* C16: when the backend stream fails after the pipe to the client has started,
\* the client's response is eventually ended by the gateway, and no further
\* backend call is made for the request.
C16_StreamErrorTerminates ==
  /\ \A r \in Reqs : (pc[r] = "open") ~> (pc[r] = "done" /\ response[r].sent)
  /\ [](\A r \in Reqs : pc[r] = "open" => Len(outbound[r]) = 2)

\* the number of inc() / observe() calls a metric has received, over all label sets
RECURSIVE Calls(_)
Calls(m) ==
  IF DOMAIN m = {} THEN 0
  ELSE LET k == CHOOSE k \in DOMAIN m : TRUE
       IN m[k] + Calls([x \in DOMAIN m \ {k} |-> m[x]])

\* the handler of request r settles in this step: with a value or an error
Settles(r) ==
  /\ pc[r] \in {"multer", "handler", "calling"}
  /\ pc'[r] \in {"done", "streaming"}

\* C17: a request that has entered the interceptor gets exactly one terminal
\* record: the step in which its handler settles, with a value or with an
\* error, calls incrementHttpRequests once and recordHttpDuration once, and no
\* other step records anything.
C17_OneTerminalRecord ==
  [][/\ (\E r \in DOMAIN pc : Settles(r)) =>
          /\ Calls(registry.httpRequestsTotal') = Calls(registry.httpRequestsTotal) + 1
          /\ Calls(registry.httpRequestDuration') = Calls(registry.httpRequestDuration) + 1
          /\ Calls(registry.httpRequestSummary') = Calls(registry.httpRequestSummary) + 1
     /\ (\A r \in DOMAIN pc : ~Settles(r)) =>
          /\ registry.httpRequestsTotal' = registry.httpRequestsTotal
          /\ registry.httpRequestDuration' = registry.httpRequestDuration
          /\ registry.httpRequestSummary' = registry.httpRequestSummary]_vars

C17_Witness ==
  \E r \in Reqs :
    /\ pc[r] = "done" /\ handled[r] /\ thrown[r] # Undefined
    /\ thrown[r].name = "TypeError"
    /\ served = 2
    /\ Calls(registry.httpRequestsTotal) = 2
    /\ Calls(registry.httpRequestDuration) = 2

\* ---- requests in flight at the same time: every connection of Slots carries
\* one request, and their steps interleave in any order
Slots == {1, 2}
ConcRoutes == {"login", "profile", "list", "upload"}
ConcIdentity == [t |-> "object", sub |-> Str(<<"u1">>)]
ConcFailure == [kind |-> "http", status |-> 500, data |-> Str(<<"boom">>)]

InitConc ==
  /\ pc = [r \in Slots |-> "idle"]
  /\ request = [r \in Slots |-> NoRequest]
  /\ response = [r \in Slots |-> NoResponse]
  /\ guard = [r \in Slots |-> "none"]
  /\ outbound = [r \in Slots |-> <<>>]
  /\ replies = [r \in Slots |-> <<>>]
  /\ thrown = [r \in Slots |-> Undefined]
  /\ returned = [r \in Slots |-> Undefined]
  /\ handled = [r \in Slots |-> FALSE]
  /\ registry = EmptyRegistry
  /\ served = 0
  /\ verified = {}

NextConc ==
  \/ \E r \in Slots, rt \in ConcRoutes : Arrive(r, rt, Str(<<"Bearer", " ", "t1">>))
  \/ \E r \in Slots : canActivate(r)
  \/ \E r \in Slots, data \in Identities : VerifyOk(r, data)
  \/ \E r \in Slots : VerifyFail(r, ConcFailure)
  \/ \E r \in Slots : intercept(r)
  \/ \E r \in Slots, body \in UploadBodies : Multer(r, body)
  \/ \E r \in Slots : Handler(r)
  \/ \E r \in Slots, data \in BackendBodies : BackendOk(r, 200, data)
  \/ \E r \in Slots : BackendFail(r, ConcFailure, Undefined)

SpecConc == InitConc /\ [][NextConc]_vars

\* the requests that are inside the interceptor: entered, handler not yet settled
InFlight == {r \in DOMAIN pc : pc[r] \in {"multer", "handler", "calling"}}

\* the requests that entered the interceptor and whose handler has settled
Completed == {r \in DOMAIN pc : pc[r] = "done" /\ guard[r] # "rejected"}

\* C18: the in-flight gauge is raised once when a request enters the
\* interceptor and lowered once when its handler settles: it always equals the
\* number of requests that entered and have not completed, is never negative,
\* and is 0 when no request is in flight.
C18_GaugeCountsInFlight ==
  /\ registry.apiRequestsInProgress = Cardinality(InFlight)
  /\ registry.apiRequestsInProgress >= 0
  /\ (\A r \in DOMAIN pc : pc[r] \in {"idle", "done"}) => registry.apiRequestsInProgress = 0

C18_Witness ==
  /\ Cardinality(InFlight) = 2
  /\ registry.apiRequestsInProgress = 2

RouteVals == {Undefined, [t |-> "object"],
              [t |-> "object", path |-> Str(<<"/videos/download/:filename">>)]}
PathVals == {Undefined, Str(<<>>), Str(<<"/videos/download/a.zip">>)}
UrlVals == {Undefined, Str(<<>>), Str(<<"/videos/download/a.zip?x=1">>)}

InitRoute ==
  /\ pc = [r \in Reqs |-> "intercept"]
  /\ \E rt \in {"login", "list"}, route \in RouteVals, path \in PathVals, url \in UrlVals :
       request = [r \in Reqs |->
         [NoRequest EXCEPT !.name = rt, !.method = Method(rt),
                           !.route = route, !.path = path, !.url = url,
                           !.body = IF Method(rt) = "POST" THEN "payload" ELSE "",
                           !.user = IF Protected(rt) THEN ConcIdentity ELSE Undefined]]
  /\ response = [r \in Reqs |-> NoResponse]
  /\ guard = [r \in Reqs |-> IF Protected(request[r].name) THEN "allowed" ELSE "none"]
  /\ outbound = [r \in Reqs |->
       IF Protected(request[r].name) THEN <<VerifyCall(Str(<<"t1">>))>> ELSE <<>>]
  /\ replies = [r \in Reqs |->
       IF Protected(request[r].name)
       THEN <<[kind |-> "ok", status |-> 200, data |-> ConcIdentity]>> ELSE <<>>]
  /\ thrown = [r \in Reqs |-> Undefined]
  /\ returned = [r \in Reqs |-> Undefined]
  /\ handled = [r \in Reqs |-> FALSE]
  /\ registry = EmptyRegistry
  /\ served = Cardinality(Reqs)
  /\ verified = {}

NextRoute ==
  \/ \E r \in Reqs : intercept(r)
  \/ \E r \in Reqs : Handler(r)
  \/ \E r \in Reqs, status \in BackendOkStatuses, data \in BackendBodies :
       BackendOk(r, status, data)
  \/ \E r \in Reqs, f \in BackendFailures : \E st \in AxiosStatus(f) : BackendFail(r, f, st)

SpecRoute == InitRoute /\ [][NextRoute]_vars

\* no route template, no path and no URL, or only empty ones
NoRouteMetadata(req) ==
  /\ Falsy(Get(req.route, "path"))
  /\ Falsy(req.path)
  /\ Falsy(req.url)

\* the route labels recorded so far, in the counter, the histogram, the
\* summary and the error counter
RecordedRoutes ==
  {l.route : l \in DOMAIN registry.httpRequestsTotal}
    \cup {l.route : l \in DOMAIN registry.httpRequestDuration}
    \cup {l.route : l \in DOMAIN registry.httpRequestSummary}
    \cup {l.route : l \in DOMAIN registry.errorRate}

\* C20: a request without route template, path and URL (absent or empty) is
\* recorded under the route label "unknown" in http_requests_total, in the
\* duration histogram and summary, and in the error counter.
C20_UnknownRouteLabel ==
  \A r \in Reqs :
    (pc[r] = "done" /\ NoRouteMetadata(request[r])) =>
      RecordedRoutes = {Str(<<"unknown">>)}

\* the first of route template, raw path and full URL that is present and
\* not empty
FirstResolvable(req) ==
  IF "path" \in DOMAIN req.route /\ req.route.path # Str(<<>>) THEN req.route.path
  ELSE IF req.path # Undefined /\ req.path # Str(<<>>) THEN req.path
  ELSE req.url

\* C21: the route label of a request is the matched route template if there
\* is one, else the raw request path, else the full URL, and the counter, the
\* duration records and the error record of the request all carry that label.
C21_RouteResolutionOrder ==
  \A r \in Reqs :
    (pc[r] = "done" /\ ~NoRouteMetadata(request[r])) =>
      /\ RecordedRoutes = {FirstResolvable(request[r])}
      /\ thrown[r] # Undefined =>
           {l.route : l \in DOMAIN registry.errorRate} = {FirstResolvable(request[r])}

C21_Witness ==
  \E r \in Reqs :
    /\ pc[r] = "done" /\ thrown[r] # Undefined
    /\ request[r].route = [t |-> "object"]
    /\ request[r].path = Str(<<"/videos/download/a.zip">>)
    /\ request[r].url = Str(<<"/videos/download/a.zip?x=1">>)
    /\ RecordedRoutes = {Str(<<"/videos/download/a.zip">>)}

\* the number of inc() calls a counter has received for one label set
CountOf(m, labels) == IF labels \in DOMAIN m THEN m[labels] ELSE 0

\* C22: a POST /auth/login that the auth service answers with 200 has raised
\* auth_operations_total{operation=login, status=success} by one, and one it
\* answers with 401 has raised {operation=login, status=failure} by one.
C22_LoginOutcomeCounted ==
  \A r \in Reqs :
    (request[r].name = "login" /\ pc[r] = "done" /\ served = 1) =>
      /\ (HandlerReply(r).kind = "ok" /\ HandlerReply(r).status = 200) =>
           CountOf(registry.authOperations, [operation |-> "login", status |-> "success"]) = 1
      /\ (HandlerReply(r).kind = "http" /\ HandlerReply(r).status = 401) =>
           CountOf(registry.authOperations, [operation |-> "login", status |-> "failure"]) = 1

\* C23: on a protected route the in-flight increment comes before the guard:
\* the request is in the gauge while its token is being verified, and a
\* request the guard rejects has got its decrement and exactly one terminal
\* record.
C23_RejectedRequestCounted ==
  \A r \in Reqs :
    served = 1 =>
      /\ pc[r] = "verifying" => registry.apiRequestsInProgress = 1
      /\ (pc[r] = "done" /\ guard[r] = "rejected") =>
           /\ registry.apiRequestsInProgress = 0
           /\ Calls(registry.httpRequestsTotal) = 1
           /\ Calls(registry.httpRequestDuration) = 1

\* C24: requests are isolated under any interleaving: the X-User-Id of every
\* outbound video call of a request is the subject id in the reply to the
\* verify call made for that same request, whatever identity was verified for
\* a request running at the same time.
C24_RequestsIsolated ==
  \A r \in DOMAIN pc :
    /\ \A i \in VideoCalls(r) :
         /\ replies[r][1].kind = "ok"
         /\ outbound[r][i].headers.XUserId = SubjectId(replies[r][1].data)
    /\ guard[r] = "allowed" => request[r].user = replies[r][1].data

C24_Witness ==
  /\ \A r \in Slots : request[r].name = "list" /\ VideoCalls(r) = {2}
  /\ outbound[1][2].headers.XUserId = Str(<<"u1">>)
  /\ outbound[2][2].headers.XUserId = Str(<<"u2">>)
  /\ pc[1] = "calling" /\ pc[2] = "done"

ErrorStatuses == {Undefined, Null, Num(0), Num(404), Num(503), Str(<<>>), Str(<<"abc">>)}
ErrorVals ==
  {[name |-> "Error", http |-> FALSE, status |-> st, message |-> "failed"] :
     st \in ErrorStatuses}

\* next.handle() fails with error e
NextHandleError(r, e) ==
  /\ pc[r] = "handler"
  /\ handled' = [handled EXCEPT ![r] = TRUE]
  /\ HandlerThrows(r, e)
  /\ UNCHANGED <<request, guard, outbound, replies, returned, served, verified>>

NextStatus ==
  \/ \E r \in Reqs : intercept(r)
  \/ \E r \in Reqs : Handler(r)
  \/ \E r \in Reqs, e \in ErrorVals : NextHandleError(r, e)
  \/ \E r \in Reqs, status \in BackendOkStatuses, data \in BackendBodies :
       BackendOk(r, status, data)
  \/ \E r \in Reqs, f \in BackendFailures : \E st \in AxiosStatus(f) : BackendFail(r, f, st)

SpecStatus == InitRoute /\ [][NextStatus]_vars

\* the status codes recorded so far, in the counter and in the histogram
RecordedStatusCodes ==
  {l.status_code : l \in DOMAIN registry.httpRequestsTotal}
    \cup {l.status_code : l \in DOMAIN registry.httpRequestDuration}

\* C26: for a request that ended with an error the recorded status code is
\* the error's status if that is a number other than 0, and 500 if the error
\* has no status, a status that is not a number, or status 0; for a request
\* that ended well it is the response's status code.
C26_RecordedStatusCode ==
  \A r \in Reqs :
    pc[r] = "done" =>
      IF thrown[r] # Undefined
      THEN RecordedStatusCodes =
             {ToString(IF thrown[r].status.t = "number" /\ thrown[r].status.n # 0
                       THEN thrown[r].status.n ELSE 500)}
      ELSE RecordedStatusCodes = {ToString(response[r].statusCode)}

C26_Witness ==
  \E r \in Reqs :
    /\ pc[r] = "done" /\ thrown[r] # Undefined
    /\ thrown[r].status = Num(404)
    /\ response[r].statusCode = 500
    /\ RecordedStatusCodes = {"404"}

\* C27: while the body of a download is still being piped to the client the
\* request is counted in the in-flight gauge and has no terminal record yet.
C27_DownloadInFlightWhileStreaming ==
  \A r \in Reqs :
    (request[r].name = "download" /\ pc[r] = "streaming" /\ served = 1) =>
      /\ registry.apiRequestsInProgress = 1
      /\ Calls(registry.httpRequestsTotal) = 0
      /\ Calls(registry.httpRequestDuration) = 0

\* the counter summed over the status codes of one (method, route)
RECURSIVE CallsFor(_, _, _)
CallsFor(m, method, route) ==
  IF DOMAIN m = {} THEN 0
  ELSE LET k == CHOOSE k \in DOMAIN m : TRUE
           rest == CallsFor([x \in DOMAIN m \ {k} |-> m[x]], method, route)
       IN IF k.method = method /\ k.route = route THEN m[k] + rest ELSE rest

\* C28: the terminal record is atomic: in every state, for each
\* (method, route, status) http_requests_total equals the number of histogram
\* observations with those labels, and for each (method, route) the number of
\* summary observations equals the counter summed over all statuses.
C28_TerminalRecordAtomic ==
  /\ registry.httpRequestsTotal = registry.httpRequestDuration
  /\ \A l \in DOMAIN registry.httpRequestsTotal :
       /\ [method |-> l.method, route |-> l.route] \in DOMAIN registry.httpRequestSummary
       /\ registry.httpRequestSummary[[method |-> l.method, route |-> l.route]]
            = CallsFor(registry.httpRequestsTotal, l.method, l.route)
  /\ \A k \in DOMAIN registry.httpRequestSummary :
       CallsFor(registry.httpRequestsTotal, k.method, k.route) = registry.httpRequestSummary[k]

C28_Witness ==
  /\ Completed = Slots
  /\ \A r \in Slots : request[r].name = "list"
  /\ response[1].statusCode = 200 /\ response[2].statusCode = 500
  /\ registry.httpRequestSummary =
       ([method |-> "GET", route |-> Str(<<"/videos">>)] :> 2)
  /\ Cardinality(DOMAIN registry.httpRequestsTotal) = 2

\* C29: uploadVideoSingle posts to /api/v1/videos/upload-single only when it
\* received a file, with exactly that file's bytes and original name under
\* the field 'video'; without a file the request fails and no outbound call
\* is made for it.
C29_SingleUploadNeedsFile ==
  \A r \in Reqs :
    request[r].name = "upload-single" =>
      /\ Cardinality(VideoCalls(r)) <= 1
      /\ \A i \in VideoCalls(r) :
           /\ request[r].file \in FileVals
           /\ outbound[r][i].method = "POST"
           /\ outbound[r][i].path = <<"/api/v1/videos/upload-single">>
           /\ outbound[r][i].body =
                <<[field |-> "video", filename |-> request[r].file.originalname,
                   bytes |-> request[r].file.buffer]>>
      /\ (handled[r] /\ request[r].file = Undefined) =>
           /\ pc[r] = "done" /\ VideoCalls(r) = {}
           /\ thrown[r] # Undefined /\ response[r].statusCode >= 400

C29_Witness ==
  \E r \in Reqs :
    /\ request[r].name = "upload-single" /\ pc[r] = "done"
    /\ request[r].file \in FileVals
    /\ VideoCalls(r) = {2} /\ returned[r] = Str(<<"body1">>)

\* ---- two requests at the same time whose clients choose route, filename,
\* files and an X-User-Id header of their own
ClientUserIds == {Undefined, Str(<<"u2">>)}
ClientRoutes == {"list", "download", "upload"}
ClientBodies == {Arr(<<FileCycle(1)>>), Arr(<<FileCycle(1), FileCycle(2)>>)}

NextClient ==
  \/ \E r \in Slots, rt \in ClientRoutes, x \in ClientUserIds :
       ArriveFrom(r, rt, Str(<<"Bearer", " ", "t1">>), x)
  \/ \E r \in Slots : canActivate(r)
  \/ \E r \in Slots, data \in Identities : VerifyOk(r, data)
  \/ \E r \in Slots : VerifyFail(r, ConcFailure)
  \/ \E r \in Slots : intercept(r)
  \/ \E r \in Slots, body \in ClientBodies : Multer(r, body)
  \/ \E r \in Slots : Handler(r)
  \/ \E r \in Slots, data \in BackendBodies : BackendOk(r, 200, data)
  \/ \E r \in Slots : BackendFail(r, ConcFailure, Undefined)
  \/ \E r \in Slots : StreamEnd(r)
  \/ \E r \in Slots : StreamError(r)

SpecClient == InitConc /\ [][NextClient]_vars

\* the outbound calls of the handler of request r
HandlerCalls(r) == DOMAIN outbound[r] \ VerifyCalls(r)

\* C30: the X-User-Id sent to the video service depends on the verify reply
\* only: two requests with the same verify reply send the same X-User-Id
\* whatever route, filename, files and X-User-Id header their clients chose,
\* it is the subject id of the verify reply, and the handler's outbound call
\* carries no header but Content-Type and that X-User-Id.
C30_UserIdFromVerifyOnly ==
  /\ \A a, b \in DOMAIN pc : \A i \in VideoCalls(a), j \in VideoCalls(b) :
       replies[a][1].data = replies[b][1].data =>
         outbound[a][i].headers.XUserId = outbound[b][j].headers.XUserId
  /\ \A r \in DOMAIN pc : \A i \in HandlerCalls(r) :
       /\ DOMAIN outbound[r][i].headers \subseteq {"ContentType", "XUserId"}
       /\ "ContentType" \in DOMAIN outbound[r][i].headers =>
            outbound[r][i].headers.ContentType = "multipart/form-data"
       /\ outbound[r][i].headers.XUserId = SubjectId(replies[r][1].data)

C30_Witness ==
  /\ VideoCalls(1) = {2} /\ VideoCalls(2) = {2}
  /\ request[1].name = "list" /\ request[2].name = "download"
  /\ request[1].headers.xUserId = Undefined
  /\ request[2].headers.xUserId = Str(<<"u2">>)
  /\ replies[1][1].data = replies[2][1].data
  /\ outbound[1][2].headers.XUserId = Str(<<"u1">>)
  /\ outbound[2][2].headers.XUserId = Str(<<"u1">>)
====
